---- MODULE Spec2Model ----
(***************************************************************************)
(* SunGoldMiner: one request handler (data) that polls a power analyzer    *)
(* over Modbus TCP (poll_solar_data) and decodes 13 two-register values    *)
(* (read_modbus_int32) into a MinerData record.                            *)
(*                                                                         *)
(* A u32 is kept as two 16-bit limbs [hi, lo] (its value is                *)
(* hi * 65536 + lo), so the full u16 range of each register is modelled    *)
(* without leaving the integers TLC computes with.                         *)
(***************************************************************************)
EXTENDS Integers, Sequences, FiniteSets, TLC

\* Number of requests the handler serves in one behaviour.
MaxPolls == 2

(***************************************************************************)
(* The device: holding registers as a function of the address.  The       *)
(* register image is an input of a poll and is drawn in Init.              *)
(***************************************************************************)
DeviceImages == {"linear", "highbit", "max", "scenario"}

HoldingRegister(d, a) ==
    CASE d = "linear"   -> a
      [] d = "highbit"  -> 32768 + a
      [] d = "max"      -> 65535
      [] d = "scenario" -> IF a = 52 THEN 1 ELSE 0

\* Causes a transport operation can fail with (e.to_string()).
Causes == {"timeout", "reset"}

(***************************************************************************)
(* Values.                                                                 *)
(***************************************************************************)
U32(h, l) == [hi |-> h, lo |-> l]

Zero == U32(0, 0)

NoRegister == -1

NoData == <<>>

PhasePower(p, r, a) == [power |-> p, reactive_power |-> r, apparent_power |-> a]

MinerData(ipt, irpt, ept, erpt, p1, p2, p3) ==
    [imported_power_total          |-> ipt,
     imported_reactive_power_total |-> irpt,
     exported_power_total          |-> ept,
     exported_reactive_power_total |-> erpt,
     phase1 |-> p1, phase2 |-> p2, phase3 |-> p3]

BadDataRead(register, message) ==
    [kind |-> "BadDataRead", register |-> register, message |-> message,
     data |-> NoData]

ModbusTransportIssue(message) ==
    [kind |-> "ModbusTransportIssue", register |-> NoRegister,
     message |-> message, data |-> NoData]

Ok(d) == [kind |-> "Ok", register |-> NoRegister, message |-> "", data |-> d]

NoResult == [kind |-> "none", register |-> NoRegister, message |-> "",
             data |-> NoData]

PhaseFields == {"Power", "ApparentPower", "ReactivePower"}

BaseFields == {"imported_power_total", "imported_reactive_power_total",
               "exported_power_total", "exported_reactive_power_total"}

BASE_DATA_REGISTER_dup ==
    [f \in BaseFields |->
        CASE f = "imported_power_total"          -> 52
          [] f = "imported_reactive_power_total" -> 52
          [] f = "exported_power_total"          -> 78
          [] f = "exported_reactive_power_total" -> 80]

BASE_DATA_REGISTER ==
    [f \in BaseFields |->
        CASE f = "imported_power_total"          -> 52
          [] f = "imported_reactive_power_total" -> 54
          [] f = "exported_power_total"          -> 78
          [] f = "exported_reactive_power_total" -> 80]

PhaseDataRegisters_overlap ==
    [f \in PhaseFields |->
        CASE f = "Power"         -> 18
          [] f = "ApparentPower" -> 20
          [] f = "ReactivePower" -> 30]

PhaseDataRegisters ==
    [f \in PhaseFields |->
        CASE f = "Power"         -> 18
          [] f = "ApparentPower" -> 24
          [] f = "ReactivePower" -> 30]

\* The orders in which a hash-keyed map over S can be iterated.
IterationOrders(S) ==
    {s \in [1..Cardinality(S) -> S] : \A x \in S : \E k \in DOMAIN s : s[k] = x}

(***************************************************************************)
(* read_modbus_int32                                                       *)
(***************************************************************************)
\* client.read_holding_registers(register, 2)
RegistersPerValue == 2

ReadHoldingRegisters(d, register, count) ==
    [k \in 1..count |-> HoldingRegister(d, register + k - 1)]

Reverse(s) == [k \in 1..Len(s) |-> s[Len(s) + 1 - k]]

\* u16 as u32: zero extension.
AsU32(w) == U32(0, w)

\* u32 << 16: the low limb becomes the high limb, the old high limb is lost.
Shl16(v) == U32(v.lo, 0)

RECURSIVE BitOr16(_, _)
BitOr16(a, b) ==
    IF a = 0 THEN b
    ELSE IF b = 0 THEN a
    ELSE (IF a % 2 = 1 \/ b % 2 = 1 THEN 1 ELSE 0)
         + 2 * BitOr16(a \div 2, b \div 2)

BitOr32(x, y) == U32(BitOr16(x.hi, y.hi), BitOr16(x.lo, y.lo))

read_modbus_int32_noreverse(d, register) ==
    LET array == ReadHoldingRegisters(d, register, RegistersPerValue)
    IN  BitOr32(Shl16(AsU32(array[1])), AsU32(array[2]))

read_modbus_int32(d, register) ==
    LET array == Reverse(ReadHoldingRegisters(d, register, RegistersPerValue))
    IN  BitOr32(Shl16(AsU32(array[1])), AsU32(array[2]))

\* register + i * 0x2
PhaseRegister_stride1(register, i) == register + i

PhaseRegister(register, i) == register + i * 2

\* HashMap::insert
Insert(m, k, v) == [x \in (DOMAIN m) \cup {k} |-> IF x = k THEN v ELSE m[x]]

\* The match over the phase field: which local the value is stored in.
MatchField_swapped(field_name, value, cur) ==
    CASE field_name = "Power"         -> [cur EXCEPT !.apparent_power = value]
      [] field_name = "ApparentPower" -> [cur EXCEPT !.power = value]
      [] field_name = "ReactivePower" -> [cur EXCEPT !.reactive_power = value]

MatchField(field_name, value, cur) ==
    CASE field_name = "Power"         -> [cur EXCEPT !.power = value]
      [] field_name = "ApparentPower" -> [cur EXCEPT !.apparent_power = value]
      [] field_name = "ReactivePower" -> [cur EXCEPT !.reactive_power = value]

\* let mut power = 0; let mut apparent_power = 0; let mut reactive_power = 0;
FreshLocals == [power |-> Zero, apparent_power |-> Zero, reactive_power |-> Zero]

\* PhasePower { power, reactive_power, apparent_power } from the locals.
BuildPhasePower(cur) == PhasePower(cur.power, cur.reactive_power, cur.apparent_power)

\* Ok(MinerData{ ... }) from the map and the vector.
BuildMinerData(pd, ph) ==
    MinerData(pd["imported_power_total"], pd["imported_reactive_power_total"],
              pd["exported_power_total"], pd["exported_reactive_power_total"],
              ph[1], ph[2], ph[3])

(***************************************************************************)
(* State.                                                                  *)
(***************************************************************************)
VARIABLES
    dev,                   \* the device's register image
    baseOrder,             \* iteration order of BASE_DATA_REGISTER
    pc,                    \* position of the handler / of poll_solar_data
    client,                \* the Transport: "none", "open", "dropped"
    polled_data,           \* HashMap<&str, u32>
    phase_data,            \* Vec<PhasePower>
    phase_data_registers,  \* iteration order of the phase HashMap
    baseIdx,               \* position in the loop over BASE_DATA_REGISTER
    i,                     \* phase index of the outer loop
    fieldIdx,              \* position in the loop over phase_data_registers
    locals,                \* power, apparent_power, reactive_power
    result,                \* what poll_solar_data returned
    ops,                   \* transport operations issued by the current poll
    response,              \* what the handler presented to the caller
    polls,                 \* requests served
    owner,                 \* the handler call that opened the Transport in client
    tid,                   \* the handler call that is running
    other                  \* the suspended handler call, when two are in flight

vars == <<dev, baseOrder, pc, client, polled_data, phase_data,
          phase_data_registers, baseIdx, i, fieldIdx, locals, result, ops,
          response, polls, owner, tid, other>>

pollLocals == <<polled_data, phase_data, phase_data_registers, baseIdx, i,
                fieldIdx, locals>>

\* What no step of a poll changes.
fixed == <<dev, baseOrder, response, polls, tid, other>>

Op(o, f, ph, a, c, k, v, e) ==
    [op |-> o, field |-> f, phase |-> ph, addr |-> a, count |-> c, ok |-> k,
     value |-> v, err |-> e]

OpenOp(k, e) == Op("open", "", -1, NoRegister, 0, k, Zero, e)

CloseOp(k, e) == Op("close", "", -1, NoRegister, 0, k, Zero, e)

ReadOp(f, ph, a, k, v, e) == Op("read", f, ph, a, RegistersPerValue, k, v, e)

NoResponse == [status |-> "none", body |-> NoData]

\* The stack of one call of the handler.
Context(t, p) ==
    [tid |-> t, pc |-> p, client |-> "none", owner |-> 0,
     polled_data |-> <<>>, phase_data |-> <<>>, phase_data_registers |-> <<>>,
     baseIdx |-> 1, i |-> 0, fieldIdx |-> 1, locals |-> FreshLocals,
     result |-> NoResult, ops |-> <<>>, response |-> NoResponse]

NoCall == Context(0, "idle")

Init ==
    /\ dev \in DeviceImages
    /\ baseOrder \in IterationOrders(BaseFields)
    /\ pc = "idle"
    /\ client = "none"
    /\ polled_data = <<>>
    /\ phase_data = <<>>
    /\ phase_data_registers = <<>>
    /\ baseIdx = 1
    /\ i = 0
    /\ fieldIdx = 1
    /\ locals = FreshLocals
    /\ result = NoResult
    /\ ops = <<>>
    /\ response = NoResponse
    /\ polls = 0
    /\ owner = 0
    /\ tid = 1
    /\ other = NoCall

(***************************************************************************)
(* data: the handler calls poll_solar_data(state.client_ip.clone()).       *)
(***************************************************************************)
Request ==
    /\ pc = "idle"
    /\ polls < MaxPolls
    /\ pc' = "open"
    /\ client' = "none"
    /\ polled_data' = <<>>
    /\ phase_data' = <<>>
    /\ phase_data_registers' = <<>>
    /\ baseIdx' = 1
    /\ i' = 0
    /\ fieldIdx' = 1
    /\ locals' = FreshLocals
    /\ result' = NoResult
    /\ ops' = <<>>
    /\ owner' = 0
    /\ UNCHANGED fixed

(***************************************************************************)
(* tcp::Transport::new(&client_ip).or_else(ModbusTransportIssue)?          *)
(***************************************************************************)
NewTransportErr_ignored(e) ==
    /\ ops' = Append(ops, OpenOp(FALSE, e))
    /\ pc' = "base"
    /\ UNCHANGED <<client, owner, result>>

NewTransportErr(e) ==
    /\ ops' = Append(ops, OpenOp(FALSE, e))
    /\ result' = ModbusTransportIssue(e)
    /\ pc' = "ret"
    /\ UNCHANGED <<client, owner>>

NewTransport ==
    /\ pc = "open"
    /\ \/ /\ ops' = Append(ops, OpenOp(TRUE, "none"))
          /\ client' = "open"
          /\ owner' = tid
          /\ pc' = "base"
          /\ UNCHANGED result
       \/ \E e \in Causes : NewTransportErr(e)
    /\ UNCHANGED fixed
    /\ UNCHANGED pollLocals

(***************************************************************************)
(* for (field_name, register) in &BASE_DATA_REGISTER { read, insert }      *)
(***************************************************************************)
\* The order in which the entries of BASE_DATA_REGISTER are written.
DeclaredBaseOrder ==
    <<"imported_power_total", "imported_reactive_power_total",
      "exported_power_total", "exported_reactive_power_total">>

BaseAdvance_positional(m) ==
    /\ polled_data' = Insert(polled_data, DeclaredBaseOrder[baseIdx],
                             m[baseOrder[baseIdx]])
    /\ baseIdx' = baseIdx + 1
    /\ pc' = IF baseIdx = Len(baseOrder) THEN "phasemap" ELSE "base"
    /\ UNCHANGED <<phase_data, phase_data_registers, i, fieldIdx, locals>>

BaseAdvance(m) ==
    /\ polled_data' = m
    /\ baseIdx' = baseIdx + 1
    /\ pc' = IF baseIdx = Len(baseOrder) THEN "phasemap" ELSE "base"
    /\ UNCHANGED <<phase_data, phase_data_registers, i, fieldIdx, locals>>

ReadBaseErr_continue(field_name, register, e) ==
    /\ ops' = Append(ops, ReadOp(field_name, -1, register, FALSE, Zero, e))
    /\ BaseAdvance(Insert(polled_data, field_name, Zero))
    /\ UNCHANGED <<client, result>>

ReadBaseErr_reconnect(field_name, register, e) ==
    /\ ops' = Append(Append(ops, ReadOp(field_name, -1, register, FALSE, Zero, e)),
                     OpenOp(TRUE, "none"))
    /\ BaseAdvance(Insert(polled_data, field_name, Zero))
    /\ UNCHANGED <<client, result>>

\* .or_else(|e| Err(BadDataRead { register: *register, message }))? : the
\* early return drops the client.
ReadBaseErr(field_name, register, e) ==
    /\ ops' = Append(ops, ReadOp(field_name, -1, register, FALSE, Zero, e))
    /\ result' = BadDataRead(register, e)
    /\ client' = "dropped"
    /\ pc' = "ret"
    /\ UNCHANGED pollLocals

ReadBase ==
    /\ pc = "base"
    /\ LET field_name == baseOrder[baseIdx]
           register   == BASE_DATA_REGISTER[field_name]
           value      == read_modbus_int32(dev, register)
       IN  \/ /\ ops' = Append(ops, ReadOp(field_name, -1, register, TRUE,
                                           value, "none"))
              /\ BaseAdvance(Insert(polled_data, field_name, value))
              /\ UNCHANGED <<client, result>>
           \/ \E e \in Causes : ReadBaseErr(field_name, register, e)
    /\ UNCHANGED <<owner, fixed>>

(***************************************************************************)
(* let phase_data_registers: HashMap<PhaseFields, u16> = HashMap::from(..) *)
(* The map is built once per poll and iterated three times unchanged, so   *)
(* its iteration order is one choice per poll.                             *)
(***************************************************************************)
MakePhaseMap ==
    /\ pc = "phasemap"
    /\ phase_data_registers' \in IterationOrders(PhaseFields)
    /\ i' = 0
    /\ fieldIdx' = 1
    /\ locals' = FreshLocals
    /\ pc' = "phase"
    /\ UNCHANGED <<client, owner, polled_data, phase_data, baseIdx, result,
                   ops, fixed>>

\* Vec::insert(index, element)
VecInsert(v, idx, x) == SubSeq(v, 1, idx) \o <<x>> \o SubSeq(v, idx + 1, Len(v))

(***************************************************************************)
(* for i in 0..3 { for (field_name, register) in &phase_data_registers     *)
(*   { read, match }  phase_data.insert(i, PhasePower{..}) }               *)
(***************************************************************************)
DeclaredPhaseOrder == <<"Power", "ApparentPower", "ReactivePower">>

LocalOf(field_name) ==
    CASE field_name = "Power"         -> "power"
      [] field_name = "ApparentPower" -> "apparent_power"
      [] field_name = "ReactivePower" -> "reactive_power"

PhaseAdvance_positional(cur) ==
    LET value == cur[LocalOf(phase_data_registers[fieldIdx])]
        byPos == [locals EXCEPT ![LocalOf(DeclaredPhaseOrder[fieldIdx])] = value]
    IN  IF fieldIdx < Len(phase_data_registers)
        THEN /\ locals' = byPos
             /\ fieldIdx' = fieldIdx + 1
             /\ UNCHANGED <<i, phase_data, pc>>
        ELSE /\ phase_data' = VecInsert(phase_data, i, BuildPhasePower(byPos))
             /\ locals' = FreshLocals
             /\ fieldIdx' = 1
             /\ i' = i + 1
             /\ pc' = IF i = 2 THEN "close" ELSE "phase"

PhaseAdvance(cur) ==
    IF fieldIdx < Len(phase_data_registers)
    THEN /\ locals' = cur
         /\ fieldIdx' = fieldIdx + 1
         /\ UNCHANGED <<i, phase_data, pc>>
    ELSE /\ phase_data' = VecInsert(phase_data, i, BuildPhasePower(cur))
         /\ locals' = FreshLocals
         /\ fieldIdx' = 1
         /\ i' = i + 1
         /\ pc' = IF i = 2 THEN "close" ELSE "phase"

ReadPhaseErr_swallowed(field_name, register, e) ==
    /\ ops' = Append(ops, ReadOp(field_name, i, PhaseRegister(register, i),
                                 FALSE, Zero, e))
    /\ PhaseAdvance(locals)
    /\ UNCHANGED <<client, result, polled_data, phase_data_registers, baseIdx>>

\* .or_else(|e| Err(BadDataRead { register: *register, message }))? : the
\* register of the error is the map's value, not the address that was read.
ReadPhaseErr(field_name, register, e) ==
    /\ ops' = Append(ops, ReadOp(field_name, i, PhaseRegister(register, i),
                                 FALSE, Zero, e))
    /\ result' = BadDataRead(register, e)
    /\ client' = "dropped"
    /\ pc' = "ret"
    /\ UNCHANGED pollLocals

ReadPhase ==
    /\ pc = "phase"
    /\ LET field_name == phase_data_registers[fieldIdx]
           register   == PhaseDataRegisters[field_name]
           value      == read_modbus_int32(dev, PhaseRegister(register, i))
       IN  \/ /\ ops' = Append(ops, ReadOp(field_name, i,
                                           PhaseRegister(register, i), TRUE,
                                           value, "none"))
              /\ PhaseAdvance(MatchField(field_name, value, locals))
              /\ UNCHANGED <<client, result, polled_data,
                             phase_data_registers, baseIdx>>
           \/ \E e \in Causes : ReadPhaseErr(field_name, register, e)
    /\ UNCHANGED <<owner, fixed>>

(***************************************************************************)
(* client.close().or_else(ModbusTransportIssue)?; Ok(MinerData{..})        *)
(* The client is dropped when the function returns.                        *)
(***************************************************************************)
CloseOk_noclose ==
    /\ ops' = ops
    /\ result' = Ok(BuildMinerData(polled_data, phase_data))

CloseOk ==
    /\ ops' = Append(ops, CloseOp(TRUE, "none"))
    /\ result' = Ok(BuildMinerData(polled_data, phase_data))

CloseErr_retry(e) ==
    /\ ops' = Append(Append(ops, CloseOp(FALSE, e)), CloseOp(TRUE, "none"))
    /\ result' = Ok(BuildMinerData(polled_data, phase_data))

CloseErr(e) ==
    /\ ops' = Append(ops, CloseOp(FALSE, e))
    /\ result' = ModbusTransportIssue(e)

Close ==
    /\ pc = "close"
    /\ \/ CloseOk
       \/ \E e \in Causes : CloseErr(e)
    /\ client' = "dropped"
    /\ pc' = "ret"
    /\ UNCHANGED <<owner, fixed>>
    /\ UNCHANGED pollLocals

(***************************************************************************)
(* data: .or_else(|_| Err(Status::InternalServerError))?; Ok(Json(data))   *)
(***************************************************************************)
Present_leaky(r) ==
    IF r.kind = "Ok"
    THEN [status |-> "Ok", body |-> r.data]
    ELSE [status |-> "InternalServerError",
          body |-> [register |-> r.register, message |-> r.message]]

Present(r) ==
    IF r.kind = "Ok"
    THEN [status |-> "Ok", body |-> r.data]
    ELSE [status |-> "InternalServerError", body |-> NoData]

Respond ==
    /\ pc = "ret"
    /\ response' = Present(result)
    /\ polls' = polls + 1
    /\ pc' = "idle"
    /\ UNCHANGED <<dev, baseOrder, client, owner, result, ops, tid, other>>
    /\ UNCHANGED pollLocals

Next ==
    \/ Request
    \/ NewTransport
    \/ ReadBase
    \/ MakePhaseMap
    \/ ReadPhase
    \/ Close
    \/ Respond

Spec == Init /\ [][Next]_vars

\* Every transport operation returns and the function body is sequential:
\* a step of the poll that can be taken is eventually taken.
SpecLive ==
    /\ Init
    /\ [][Next]_vars
    /\ WF_vars(NewTransport)
    /\ WF_vars(ReadBase)
    /\ WF_vars(MakePhaseMap)
    /\ WF_vars(ReadPhase)
    /\ WF_vars(Close)

(***************************************************************************)
(* Two calls of the handler in flight at once (Rocket runs a handler per   *)
(* request).  Each call has its own stack; the variables hold the stack of *)
(* the running call and other holds the suspended one.  Switch is the      *)
(* scheduler giving the processor to the other call between two steps.     *)
(***************************************************************************)
Running ==
    [tid |-> tid, pc |-> pc, client |-> client, owner |-> owner,
     polled_data |-> polled_data, phase_data |-> phase_data,
     phase_data_registers |-> phase_data_registers,
     baseIdx |-> baseIdx, i |-> i, fieldIdx |-> fieldIdx, locals |-> locals,
     result |-> result, ops |-> ops, response |-> response]

Calls == {Running, other}

Switch_sharedClient ==
    /\ other.pc # "idle"
    /\ tid' = other.tid
    /\ pc' = other.pc
    /\ polled_data' = other.polled_data
    /\ phase_data' = other.phase_data
    /\ phase_data_registers' = other.phase_data_registers
    /\ baseIdx' = other.baseIdx
    /\ i' = other.i
    /\ fieldIdx' = other.fieldIdx
    /\ locals' = other.locals
    /\ result' = other.result
    /\ ops' = other.ops
    /\ response' = other.response
    /\ other' = Running
    /\ UNCHANGED <<client, owner, dev, baseOrder, polls>>

Switch ==
    /\ other.pc # "idle"
    /\ tid' = other.tid
    /\ pc' = other.pc
    /\ client' = other.client
    /\ owner' = other.owner
    /\ polled_data' = other.polled_data
    /\ phase_data' = other.phase_data
    /\ phase_data_registers' = other.phase_data_registers
    /\ baseIdx' = other.baseIdx
    /\ i' = other.i
    /\ fieldIdx' = other.fieldIdx
    /\ locals' = other.locals
    /\ result' = other.result
    /\ ops' = other.ops
    /\ response' = other.response
    /\ other' = Running
    /\ UNCHANGED <<dev, baseOrder, polls>>

\* The register images and the orders of BASE_DATA_REGISTER (as declared, and
\* reversed) the two-call specification is explored for.
ConcDeviceImages == {"linear", "scenario"}

ConcBaseOrders == {DeclaredBaseOrder, Reverse(DeclaredBaseOrder)}

\* Both calls have entered poll_solar_data and issued nothing yet.
InitConc ==
    /\ dev \in ConcDeviceImages
    /\ baseOrder \in ConcBaseOrders
    /\ pc = "open"
    /\ client = "none"
    /\ polled_data = <<>>
    /\ phase_data = <<>>
    /\ phase_data_registers = <<>>
    /\ baseIdx = 1
    /\ i = 0
    /\ fieldIdx = 1
    /\ locals = FreshLocals
    /\ result = NoResult
    /\ ops = <<>>
    /\ response = NoResponse
    /\ polls = 0
    /\ owner = 0
    /\ tid = 1
    /\ other = Context(2, "open")

NextConc ==
    \/ NewTransport
    \/ ReadBase
    \/ MakePhaseMap
    \/ ReadPhase
    \/ Close
    \/ Respond
    \/ Switch

SpecConc == InitConc /\ [][NextConc]_vars

(***************************************************************************)
(* Properties.                                                             *)
(***************************************************************************)
Reads == {k \in DOMAIN ops : ops[k].op = "read"}

OkReads == {k \in Reads : ops[k].ok}

FailedReads == {k \in Reads : ~ops[k].ok}

Closes == {k \in DOMAIN ops : ops[k].op = "close"}

Opened == \E k \in DOMAIN ops : ops[k].op = "open" /\ ops[k].ok

OpenFailed == \E k \in DOMAIN ops : ops[k].op = "open" /\ ~ops[k].ok

Returned == result.kind # "none"

SnapshotValues(d) ==
    {d.imported_power_total, d.imported_reactive_power_total,
     d.exported_power_total, d.exported_reactive_power_total}
    \cup UNION {{p.power, p.reactive_power, p.apparent_power} :
                p \in {d.phase1, d.phase2, d.phase3}}

\* C1: a poll in which a register read failed returns a failure and never a
\* Snapshot; a Snapshot is returned only after 13 successful reads, and each
\* of its fields holds the value of a successful read of that poll.
C1_NoPartialSnapshot ==
    /\ FailedReads # {} => result.kind = "BadDataRead"
    /\ result.kind = "Ok" =>
          /\ FailedReads = {}
          /\ Cardinality(OkReads) = 13
          /\ SnapshotValues(result.data) \subseteq {ops[k].value : k \in OkReads}

C1_Witness ==
    /\ pc = "ret"
    /\ result.kind = "BadDataRead"
    /\ \E k \in FailedReads : ops[k].phase = 1
    /\ fieldIdx = 2
    /\ dev = "linear"

\* C2: the register carried by a returned BadDataRead equals the address
\* that was passed to the failing read.
C2_ErrorRegisterIsReadAddress ==
    (Returned /\ result.kind = "BadDataRead") =>
        \A k \in FailedReads : result.register = ops[k].addr

\* C3: when opening the Transport fails, poll returns ModbusTransportIssue
\* and issues neither a register read nor a close.
C3_OpenFailure ==
    OpenFailed =>
        /\ Returned
        /\ result.kind = "ModbusTransportIssue"
        /\ Reads = {}
        /\ Closes = {}

C3_Witness ==
    /\ pc = "ret"
    /\ OpenFailed
    /\ result.kind = "ModbusTransportIssue"

DocumentedPhaseBase ==
    [f \in PhaseFields |->
        CASE f = "Power"         -> 18
          [] f = "ApparentPower" -> 24
          [] f = "ReactivePower" -> 30]

\* C5: the read for sub-measurement base b of phase i is issued at address
\* b + 2*i and requests exactly 2 registers.
C5_PhaseAddress ==
    \A k \in Reads :
        ops[k].phase # -1 =>
            /\ ops[k].phase \in 0..2
            /\ ops[k].field \in PhaseFields
            /\ ops[k].addr = DocumentedPhaseBase[ops[k].field] + 2 * ops[k].phase
            /\ ops[k].count = 2

C5_Witness ==
    \E k \in OkReads :
        /\ ops[k].phase = 2
        /\ ops[k].field = "ApparentPower"
        /\ ops[k].addr = 28

ReadsAt(a) == {k \in OkReads : ops[k].addr = a}

ReadValueAt(a) == ops[CHOOSE k \in ReadsAt(a) : TRUE].value

FromRegister(v, a) == Cardinality(ReadsAt(a)) = 1 /\ v = ReadValueAt(a)

PhaseFromRegisters(p, n) ==
    /\ FromRegister(p.power, 18 + 2 * n)
    /\ FromRegister(p.apparent_power, 24 + 2 * n)
    /\ FromRegister(p.reactive_power, 30 + 2 * n)

\* C6: on success every Snapshot field holds the value read from its own
\* documented register.
C6_FieldsFromOwnRegister ==
    result.kind = "Ok" =>
        LET d == result.data
        IN  /\ FromRegister(d.imported_power_total, 52)
            /\ FromRegister(d.imported_reactive_power_total, 54)
            /\ FromRegister(d.exported_power_total, 78)
            /\ FromRegister(d.exported_reactive_power_total, 80)
            /\ PhaseFromRegisters(d.phase1, 0)
            /\ PhaseFromRegisters(d.phase2, 1)
            /\ PhaseFromRegisters(d.phase3, 2)

C6_Witness ==
    /\ pc = "ret"
    /\ result.kind = "Ok"
    /\ dev = "linear"
    /\ Cardinality(SnapshotValues(result.data)) = 13

\* C7: when open and all 13 reads succeed, poll returns the Snapshot whether
\* close succeeds or fails.
C7_CloseFailureIgnored ==
    (Returned /\ Opened /\ Cardinality(OkReads) = 13) => result.kind = "Ok"

\* C8: a poll that returns ModbusTransportIssue could not open the
\* connection and issued no register read.
C8_TransportIssueMeansNoRead ==
    (Returned /\ result.kind = "ModbusTransportIssue") =>
        (OpenFailed /\ Reads = {})

\* C9: after the first failing read no further read is issued, no address is
\* read twice in a poll, and the returned failure is a read failure carrying
\* the cause of that first failing read.
C9_FailFast ==
    /\ \A k \in FailedReads : \A j \in Reads : j <= k
    /\ \A j, k \in Reads : j # k => ops[j].addr # ops[k].addr
    /\ \A k \in FailedReads :
          /\ Returned
          /\ result.kind = "BadDataRead"
          /\ result.message = ops[k].err

C9_Witness ==
    /\ pc = "ret"
    /\ Cardinality(FailedReads) = 1
    /\ Cardinality(OkReads) = 2
    /\ result.kind = "BadDataRead"
    /\ result.message = "reset"

\* C10 as stated: every poll whose open succeeded invokes close before it
\* returns, on the read-failure paths too.
C10_CloseOnEveryPath ==
    (Returned /\ Opened) => Closes # {}

\* C10 amended: a poll whose open succeeded has released its Transport when
\* it returns; close is invoked exactly when all 13 reads succeeded, and on
\* a read failure the Transport is dropped without a close.
C10_CloseOnSuccessOnly ==
    (Returned /\ Opened) =>
        /\ client = "dropped"
        /\ Cardinality(Closes) = (IF FailedReads = {} THEN 1 ELSE 0)
        /\ FailedReads = {} => Cardinality(OkReads) = 13

C10_Witness ==
    /\ pc = "ret"
    /\ Opened
    /\ FailedReads # {}
    /\ Closes = {}
    /\ client = "dropped"

Opens == {k \in DOMAIN ops : ops[k].op = "open"}

\* C11: within one poll the Transport is opened exactly once and before any
\* read; every read is issued on that connection while it is open, none
\* after the close, and no second connection is opened.
C11_OneOpenConnection ==
    /\ Cardinality(Opens) <= 1
    /\ (Reads \cup Closes) # {} => (ops[1].op = "open" /\ ops[1].ok)
    /\ \A k \in Reads : \A c \in Closes : k < c
    /\ Returned => Cardinality(Opens) = 1
    /\ pc \in {"base", "phasemap", "phase", "close"} =>
          (client = "open" /\ owner = tid /\ Closes = {})

C11_Witness ==
    /\ pc = "ret"
    /\ result.kind = "Ok"
    /\ Len(ops) = 15
    /\ ops[1].op = "open"
    /\ ops[15].op = "close"
    /\ \A k \in 2..14 : ops[k].op = "read"

\* C12: a poll never changes the device's registers, starts from a fresh
\* state whatever the previous poll did, and two consecutive successful
\* polls of the same register contents return identical Snapshots.
C12_RepeatablePureRead ==
    [][/\ dev' = dev
       /\ (pc = "idle" /\ pc' = "open") =>
             /\ <<polled_data', phase_data', phase_data_registers'>>
                    = <<(<<>>), (<<>>), (<<>>)>>
             /\ locals' = FreshLocals
             /\ ops' = <<>>
             /\ client' = "none"
       /\ (result'.kind = "Ok" /\ response.status = "Ok") =>
             result'.data = response.body]_vars

C12_Witness ==
    /\ pc = "ret"
    /\ polls = 1
    /\ result.kind = "Ok"
    /\ response.status = "Ok"
    /\ dev = "linear"

\* The value a device image holds at address a, read without the program.
DeviceValue(d, a) == U32(HoldingRegister(d, a + 1), HoldingRegister(d, a))

\* The Snapshot of a device image, field by documented register.
ExpectedSnapshot(d) ==
    MinerData(DeviceValue(d, 52), DeviceValue(d, 54), DeviceValue(d, 78),
              DeviceValue(d, 80),
              PhasePower(DeviceValue(d, 18), DeviceValue(d, 30), DeviceValue(d, 24)),
              PhasePower(DeviceValue(d, 20), DeviceValue(d, 32), DeviceValue(d, 26)),
              PhasePower(DeviceValue(d, 22), DeviceValue(d, 34), DeviceValue(d, 28)))

\* What a poll returns when it runs alone, as a function of the outcomes of
\* its own transport operations o and of the device.
AloneOutcome(o) ==
    IF o = <<>> THEN NoResult
    ELSE LET last == o[Len(o)]
         IN  CASE last.op = "open" /\ ~last.ok -> ModbusTransportIssue(last.err)
               [] last.op = "read" /\ ~last.ok ->
                     BadDataRead(IF last.phase = -1 THEN last.addr
                                 ELSE last.addr - 2 * last.phase, last.err)
               [] last.op = "close" /\ ~last.ok -> ModbusTransportIssue(last.err)
               [] last.op = "close" /\ last.ok -> Ok(ExpectedSnapshot(dev))
               [] OTHER -> NoResult

SameResult(r, q) ==
    /\ r.kind = q.kind
    /\ r.register = q.register
    /\ r.message = q.message
    /\ r.kind = "Ok" => r.data = q.data

\* C13: with two polls interleaved against the same device, each poll opens
\* and uses only its own Transport, no poll holds a Transport another poll
\* opened, and each poll's result is the one it has when it runs alone.
C13_ConcurrentPollsIndependent ==
    \A c \in Calls :
        /\ c.owner \in {0, c.tid}
        /\ c.pc \in {"base", "phasemap", "phase", "close"} =>
              (c.client = "open" /\ c.owner = c.tid)
        /\ Cardinality({k \in DOMAIN c.ops : c.ops[k].op = "open"}) <= 1
        /\ c.owner = c.tid <=>
              (c.ops # <<>> /\ c.ops[1].op = "open" /\ c.ops[1].ok)
        /\ SameResult(c.result, AloneOutcome(c.ops))

C13_Witness ==
    /\ pc = "ret"
    /\ result.kind = "Ok"
    /\ other.pc = "ret"
    /\ other.result.kind = "BadDataRead"
    /\ other.result.register = 24
    /\ owner = tid
    /\ other.owner = other.tid

PollAddresses == {52, 54, 78, 80, 18, 20, 22, 24, 26, 28, 30, 32, 34}

\* The group an address belongs to: -1 for the aggregates, else the phase.
GroupOfAddress(a) ==
    IF a \in {52, 54, 78, 80} THEN -1 ELSE ((a - 18) % 6) \div 2

\* C14: a successful poll issues exactly 13 reads, one per address of the
\* documented set and each address once; the aggregate reads precede the
\* phase reads and the reads of phase i precede those of phase i+1.
C14_ThirteenReadsInOrder ==
    result.kind = "Ok" =>
        /\ Cardinality(Reads) = 13
        /\ {ops[k].addr : k \in Reads} = PollAddresses
        /\ \A j, k \in Reads :
              GroupOfAddress(ops[j].addr) < GroupOfAddress(ops[k].addr) => j < k

C14_Witness ==
    /\ pc = "ret"
    /\ result.kind = "Ok"
    /\ baseOrder # DeclaredBaseOrder
    /\ phase_data_registers # DeclaredPhaseOrder
    /\ Cardinality(Reads) = 13

\* C15: for fixed register contents and all reads succeeding, the Snapshot
\* is the same for every iteration order of the aggregate table and of the
\* phase map: it is a function of the device alone.
C15_OrderIndependent ==
    result.kind = "Ok" => result.data = ExpectedSnapshot(dev)

C15_Witness ==
    /\ pc = "ret"
    /\ result.kind = "Ok"
    /\ dev = "linear"
    /\ baseOrder = Reverse(DeclaredBaseOrder)
    /\ phase_data_registers = Reverse(DeclaredPhaseOrder)

\* C16: the handler answers every failed poll with one and the same generic
\* failure, which carries neither the register nor the cause, and presents
\* a Snapshot only when the poll succeeded.
C16_FailuresCollapsed ==
    (pc = "idle" /\ polls > 0) =>
        /\ DOMAIN response = {"status", "body"}
        /\ result.kind # "Ok" =>
              /\ response.status = "InternalServerError"
              /\ DOMAIN response.body = {}
        /\ response.status = "Ok" <=> result.kind = "Ok"
        /\ response.status = "Ok" => response.body = result.data

C16_Witness ==
    /\ pc = "idle"
    /\ polls = 2
    /\ result.kind = "BadDataRead"
    /\ result.register = 30
    /\ result.message = "timeout"
    /\ response.status = "InternalServerError"

\* The registers one read covers.
Span(o) == o.addr .. (o.addr + o.count - 1)

\* C17: the two-register spans read by a poll are pairwise disjoint, and
\* every address of a span lies in the 16-bit address range, so that no
\* address computation wraps around.
C17_SpansDisjoint ==
    /\ \A j, k \in Reads : j # k => Span(ops[j]) \cap Span(ops[k]) = {}
    /\ \A k \in Reads :
          /\ Cardinality(Span(ops[k])) = 2
          /\ Span(ops[k]) \subseteq 0..65535

C17_Witness ==
    /\ pc = "ret"
    /\ Cardinality(Reads) = 13
    /\ Cardinality(UNION {Span(ops[k]) : k \in Reads}) = 26

OneOutcome ==
    /\ pc \in {"open", "base", "phasemap", "phase", "close"} => result.kind = "none"
    /\ pc = "ret" =>
          /\ result.kind \in {"Ok", "BadDataRead", "ModbusTransportIssue"}
          /\ result.kind = "Ok" <=> DOMAIN result.data # {}

WithinBudget ==
    /\ Cardinality(Opens) <= 1
    /\ Cardinality(Reads) <= 13
    /\ Cardinality(Closes) <= 1

\* C18: when every transport operation returns, every poll that starts
\* returns, with exactly one outcome (a Snapshot or one error), after at
\* most one open, at most 13 reads and at most one close.
C18_PollTerminates ==
    /\ [](OneOutcome /\ WithinBudget)
    /\ (pc = "open") ~> (pc = "ret")

C18_Witness ==
    /\ pc = "ret"
    /\ result.kind = "ModbusTransportIssue"
    /\ Cardinality(Opens) = 1
    /\ Cardinality(Reads) = 13
    /\ Cardinality(Closes) = 1

====
